---- MODULE Spec2Model ----
(***************************************************************************)
(* Model of app.py: fetch_locations (the per-row normalisation loop with   *)
(* coordinate de-duplication) and the module-level page build.             *)
(*                                                                         *)
(* Coordinates are fixed-point integers in units of 0.0001 degree, so      *)
(* 50.0 is 500000, 8.0 is 80000 and the nudge step 0.0005 is 5.  The       *)
(* record payload that no control flow depends on (name, status, source,   *)
(* notes, maps_url) is represented by the index of the row it came from.   *)
(***************************************************************************)
EXTENDS Integers, Sequences, FiniteSets

\* Largest number of rows the database query returns in the model.
MaxRows == 3

\* lat += 0.0005 / lon += 0.0005, in units of 0.0001 degree.
STEP == 5

----------------------------------------------------------------------------
\* Inputs

\* The properties of a row that fetch_locations reads, in the order it reads them.
Fields == <<"Name", "Adresse", "Ungenaue Adresse", "Status", "Quelle", "Notes", "Google Maps">>

AllFields == {Fields[k] : k \in 1..Len(Fields)}

\* Rows of the Notion response: the set of well-formed properties and the
\* value of the 'Ungenaue Adresse' checkbox (FALSE when the property is absent).
Rows ==
    {[props |-> AllFields \ miss, inaccurate |-> b] :
        miss \in {{}, {"Adresse"}, {"Status"}}, b \in BOOLEAN}
    \cup {[props |-> AllFields \ {"Ungenaue Adresse"}, inaccurate |-> FALSE]}

\* Raw coordinates the geocoder may answer with: (50.0, 8.0), the point one
\* step up the diagonal from it, and a point sharing only its latitude with
\* the latter.
RawCoords == {<<500000, 80000>>, <<500005, 80005>>, <<500005, 80000>>}

Digits == {"5", "6"}

\* display_name values, as character sequences: "s5,o,6,d" (house number),
\* "s,o,6,d" (a digit only in the zip code) and "6,d" (fewer than three parts).
DisplayNames ==
    { <<"s", "5", ",", "o", ",", "6", ",", "d">>,
      <<"s", ",", "o", ",", "6", ",", "d">>,
      <<"6", ",", "d">> }

\* Values of the variable `location`: not assigned in this iteration, None,
\* or a geopy Location.  GeocoderRaises is the lookup raising instead.
Unset == [kind |-> "unset"]
None == [kind |-> "None"]
GeocoderRaises == [kind |-> "raise"]

Locations ==
    {[kind |-> "Location", latitude |-> c[1], longitude |-> c[2], display_name |-> d] :
        c \in RawCoords, d \in DisplayNames}

\* What geolocator.geocode(address) can do: raise, return None, return a Location.
GeocoderResults == {GeocoderRaises, None} \cup Locations

----------------------------------------------------------------------------
\* Pure helpers

\* str.split(',')
RECURSIVE Split(_)
Split(s) ==
    IF \A k \in 1..Len(s) : s[k] # ","
    THEN <<s>>
    ELSE LET k == CHOOSE j \in 1..Len(s) :
                      s[j] = "," /\ \A m \in 1..(j - 1) : s[m] # ","
         IN  <<SubSeq(s, 1, k - 1)>> \o Split(SubSeq(s, k + 1, Len(s)))

\* parts[:-2]
DropLastTwo(parts) ==
    IF Len(parts) <= 2 THEN <<>> ELSE SubSeq(parts, 1, Len(parts) - 2)

\* ','.join(parts)
RECURSIVE Join(_)
Join(parts) ==
    IF parts = <<>> THEN <<>>
    ELSE IF Len(parts) = 1 THEN parts[1]
    ELSE parts[1] \o <<",">> \o Join(Tail(parts))

\* location_string_wo_zip_code
LocationStringWoZipCode(display_name) == Join(DropLastTwo(Split(display_name)))

\* any(char.isdigit() for char in s)
AnyDigit(s) == \E k \in 1..Len(s) : s[k] \in Digits

\* The two nested ifs guarding the house-number warning.
HouseNumberWarning_IgnoresFlag(display_name, inaccurate_address) ==
    ~AnyDigit(LocationStringWoZipCode(display_name))

HouseNumberWarning(display_name, inaccurate_address) ==
    /\ ~AnyDigit(LocationStringWoZipCode(display_name))
    /\ ~inaccurate_address

\* The nudge loop: while (lat, lon) in seen_coords: lat += STEP; lon += STEP
Nudge_None(lat, lon, seen) == <<lat, lon>>

Nudge_LatOnly(lat, lon, seen) ==
    LET RECURSIVE Go(_)
        Go(a) == IF <<a, lon>> \in seen THEN Go(a + STEP) ELSE <<a, lon>>
    IN  Go(lat)

RECURSIVE Nudge(_, _, _)
Nudge(lat, lon, seen) ==
    IF <<lat, lon>> \in seen
    THEN Nudge(lat + STEP, lon + STEP, seen)
    ELSE <<lat, lon>>

\* except Exception: every exception row processing can raise is caught.
Caught_KeyErrorOnly(exc) == exc = "KeyError"

Caught(exc) == exc \in {"KeyError", "GeocoderError"}

\* locations.append(record)
AppendRecord_Prepend(locs, rec) == <<rec>> \o locs

AppendRecord(locs, rec) == Append(locs, rec)

----------------------------------------------------------------------------
\* State

VARIABLES
    pc,           \* "query", "loop", "render", "done" ("crashed": an exception escaped)
    n,            \* len(rows)
    i,            \* number of rows the for loop has taken so far
    row,          \* the loop variable
    location,     \* the geocoder's answer for the current row
    locations,    \* the output list, records [row, lat, lon]
    seen_coords,  \* the reserved coordinates
    raw,          \* raw[k]: the coordinates the geocoder gave for locations[k]
    messages,     \* st.warning / st.error calls so far, [kind, row]
    unpaused,     \* geocoder lookups made since the last time.sleep
    page          \* what the module-level code rendered

vars == <<pc, n, i, row, location, locations, seen_coords, raw, messages, unpaused, page>>

NoRow == [kind |-> "no row"]
NoMap == [shown |-> FALSE]
NoTable == [shown |-> FALSE]
NoPage == [rendered |-> FALSE, error |-> FALSE, map |-> NoMap, table |-> NoTable]

Init ==
    /\ pc = "query"
    /\ n = 0
    /\ i = 0
    /\ row = NoRow
    /\ location = Unset
    /\ locations = <<>>
    /\ seen_coords = {}
    /\ raw = <<>>
    /\ messages = <<>>
    /\ unpaused = 0
    /\ page = NoPage

----------------------------------------------------------------------------
\* One iteration of the for loop, in the order of the code.  A stage receives
\* the iteration's intermediate result and passes it through untouched once
\* the iteration is over (continue, or the except clause ran).

Message(kind, idx) == [kind |-> kind, row |-> idx]

\* An exception raised inside the try block: the except clause reports it and
\* continues, unless it does not catch it.
Raise(res, exc, idx) ==
    IF Caught(exc)
    THEN [res EXCEPT !.over = TRUE, !.msgs = Append(@, Message("error", idx))]
    ELSE [res EXCEPT !.over = TRUE, !.raised = exc]

\* Lines 47-57: name, address, the geocoder lookup, the unresolved check.
Lookup(res, r, g, idx) ==
    IF "Name" \notin r.props \/ "Adresse" \notin r.props
    THEN Raise(res, "KeyError", idx)
    ELSE LET called == [res EXCEPT !.unpaused = @ + 1] IN
         IF g = GeocoderRaises
         THEN Raise(called, "GeocoderError", idx)
         ELSE IF g = None
         THEN [called EXCEPT !.location = None, !.over = TRUE,
                             !.msgs = Append(@, Message("not geocoded", idx))]
         ELSE [called EXCEPT !.location = g]

\* Lines 59-68: the imprecise flag and the house-number warning.
CheckHouseNumber(res, r, idx) ==
    IF res.over THEN res
    ELSE IF "Ungenaue Adresse" \notin r.props
    THEN Raise(res, "KeyError", idx)
    ELSE IF HouseNumberWarning(res.location.display_name, r.inaccurate)
    THEN [res EXCEPT !.msgs = Append(@, Message("no house number", idx))]
    ELSE res

\* Lines 70-90: status, source, notes, maps_url.
ReadRest_StopsWhenWarned(res, r, idx) ==
    IF res.over THEN res
    ELSE IF \E k \in 1..Len(res.msgs) : res.msgs[k] = Message("no house number", idx)
    THEN [res EXCEPT !.over = TRUE]
    ELSE IF {"Status", "Quelle", "Notes", "Google Maps"} \subseteq r.props
    THEN res
    ELSE Raise(res, "KeyError", idx)

ReadRest_ReservesFirst(res, r, idx) ==
    IF res.over THEN res
    ELSE IF {"Status", "Quelle", "Notes", "Google Maps"} \subseteq r.props
    THEN res
    ELSE Raise([res EXCEPT !.seen = @ \cup {<<res.location.latitude,
                                              res.location.longitude>>}],
               "KeyError", idx)

ReadRest(res, r, idx) ==
    IF res.over THEN res
    ELSE IF {"Status", "Quelle", "Notes", "Google Maps"} \subseteq r.props
    THEN res
    ELSE Raise(res, "KeyError", idx)

\* Lines 92-111: nudge, reserve, append, sleep.
Emit(res, idx) ==
    IF res.over THEN res
    ELSE LET c == Nudge(res.location.latitude, res.location.longitude, res.seen)
         IN  [res EXCEPT !.seen = @ \cup {c},
                         !.locs = AppendRecord(@, [row |-> idx, lat |-> c[1], lon |-> c[2]]),
                         !.raw = AppendRecord(@, <<res.location.latitude,
                                                   res.location.longitude>>),
                         !.unpaused = 0,
                         !.over = TRUE]

Iteration(r, g, idx) ==
    LET start == [location |-> Unset, unpaused |-> unpaused, msgs |-> messages,
                  seen |-> seen_coords, locs |-> locations, raw |-> raw,
                  raised |-> "none", over |-> FALSE]
    IN  Emit(ReadRest(CheckHouseNumber(Lookup(start, r, g, idx), r, idx), r, idx), idx)

----------------------------------------------------------------------------
\* Page build (module level, lines 158-224)

Lats(locs) == {locs[k].lat : k \in 1..Len(locs)}
Lons(locs) == {locs[k].lon : k \in 1..Len(locs)}

Min(S) == CHOOSE x \in S : \A y \in S : x <= y
Max(S) == CHOOSE x \in S : \A y \in S : x >= y

RECURSIVE Sum(_, _)
Sum(locs, axis) ==
    IF locs = <<>> THEN 0
    ELSE (IF axis = "lat" THEN Head(locs).lat ELSE Head(locs).lon) + Sum(Tail(locs), axis)

\* if not locations
NoLocations_AtMostOne(locs) == Len(locs) <= 1

NoLocations(locs) == locs = <<>>

\* sw = [min(lats), min(lons)]; ne = [max(lats), max(lons)]
SouthWest(locs) == <<Min(Lats(locs)), Min(Lons(locs))>>

NorthEast_FirstRecord(locs) == <<locs[1].lat, locs[1].lon>>

NorthEast(locs) == <<Max(Lats(locs)), Max(Lons(locs))>>

\* [sum(lats) / len(lats), sum(lons) / len(lons)], kept as sums over a count.
Centre(locs) == [lat_sum |-> Sum(locs, "lat"), lon_sum |-> Sum(locs, "lon"), count |-> Len(locs)]

Markers(locs) == {<<locs[k].lat, locs[k].lon>> : k \in 1..Len(locs)}

\* The table's rows; their order (by name) is not represented.
TableRows(locs) == {locs[k].row : k \in 1..Len(locs)}

----------------------------------------------------------------------------
\* Actions

\* response = notion.databases.query(...); rows = response['results']
Query ==
    /\ pc = "query"
    /\ \E m \in 0..MaxRows : n' = m
    /\ pc' = "loop"
    /\ UNCHANGED <<i, row, location, locations, seen_coords, raw, messages, unpaused, page>>

\* One pass through the body of `for row in rows`.
ProcessRow ==
    /\ pc = "loop"
    /\ i < n
    /\ \E r \in Rows, g \in GeocoderResults :
          LET res == Iteration(r, g, i + 1) IN
            /\ row' = r
            /\ location' = res.location
            /\ locations' = res.locs
            /\ seen_coords' = res.seen
            /\ raw' = res.raw
            /\ messages' = res.msgs
            /\ unpaused' = res.unpaused
            /\ pc' = IF res.raised = "none" THEN "loop" ELSE "crashed"
    /\ i' = i + 1
    /\ UNCHANGED <<n, page>>

\* return locations
Return ==
    /\ pc = "loop"
    /\ i = n
    /\ pc' = "render"
    /\ UNCHANGED <<n, i, row, location, locations, seen_coords, raw, messages, unpaused, page>>

\* if not locations: st.error('No locations found.') else: map and table
Render ==
    /\ pc = "render"
    /\ page' = IF NoLocations(locations)
               THEN [rendered |-> TRUE, error |-> TRUE, map |-> NoMap, table |-> NoTable]
               ELSE [rendered |-> TRUE, error |-> FALSE,
                     map |-> [shown |-> TRUE,
                              sw |-> SouthWest(locations), ne |-> NorthEast(locations),
                              centre |-> Centre(locations), markers |-> Markers(locations)],
                     table |-> [shown |-> TRUE, rows |-> TableRows(locations)]]
    /\ pc' = "done"
    /\ UNCHANGED <<n, i, row, location, locations, seen_coords, raw, messages, unpaused>>

Next == Query \/ ProcessRow \/ Return \/ Render

Spec == Init /\ [][Next]_vars

----------------------------------------------------------------------------
\* Vocabulary of the properties

Coord(rec) == <<rec.lat, rec.lon>>

\* Row k has a record in the output.
Emitted(k) == \E a \in 1..Len(locations) : locations[a].row = k

\* Row k caused a message of this kind.
Reported(kind, k) == \E m \in 1..Len(messages) : messages[m] = Message(kind, k)

\* The current row's address was resolved by the geocoder.
Resolved == location.kind = "Location"

\* (50.0, 8.0) and one step up the diagonal from it.
Origin == <<500000, 80000>>
OriginNudged == <<500005, 80005>>

----------------------------------------------------------------------------
\* C1: the output is never longer than the number of rows taken so far (and
\* so than the input), the coordinates of its records are pairwise distinct,
\* and every record's coordinates are in seen_coords -- in every state, that
\* is after every processed row.
C1_DistinctCoordinates ==
    /\ Len(locations) <= i
    /\ i <= n
    /\ \A a, b \in 1..Len(locations) :
          a # b => Coord(locations[a]) # Coord(locations[b])
    /\ \A a \in 1..Len(locations) : Coord(locations[a]) \in seen_coords

\* Three rows that geocode to the same point have all been emitted.
C1_Witness ==
    /\ Len(locations) = 3
    /\ raw[1] = raw[2]
    /\ raw[2] = raw[3]

\* C2: a record is its raw coordinates moved k >= 0 whole steps up the
\* diagonal, where every candidate passed over was reserved and the one taken
\* was not; two records with equal raw coordinates differ by k >= 1 steps on
\* both axes; and rows 1 and 3 at (50.0, 8.0) with row 2 unresolved give two
\* records, row 3's at (50.0005, 8.0005).
C2_EqualRawDifferBySteps ==
    \A a, b \in 1..Len(locations) :
        (a < b /\ raw[a] = raw[b]) =>
            \E k \in 1..Len(locations) :
                /\ locations[b].lat = locations[a].lat + k * STEP
                /\ locations[b].lon = locations[a].lon + k * STEP

C2_ExampleCase ==
    /\ i = 3
    /\ Reported("not geocoded", 2)
    /\ \A k \in {1, 3} : ~Reported("not geocoded", k) /\ ~Reported("error", k)
    /\ \A a \in 1..Len(raw) : raw[a] = Origin

C2_Example ==
    C2_ExampleCase =>
        /\ Len(locations) = 2
        /\ locations[1].row = 1 /\ Coord(locations[1]) = Origin
        /\ locations[2].row = 3 /\ Coord(locations[2]) = OriginNudged

C2_SmallestFreeOffset ==
    Len(locations') = Len(locations) + 1 =>
        \E k \in 0..Len(locations) :
            /\ \E a \in 1..Len(locations') :
                  /\ locations'[a].row = i'
                  /\ locations'[a].lat = location'.latitude + k * STEP
                  /\ locations'[a].lon = location'.longitude + k * STEP
            /\ \A j \in 0..(k - 1) :
                  <<location'.latitude + j * STEP, location'.longitude + j * STEP>>
                      \in seen_coords
            /\ <<location'.latitude + k * STEP, location'.longitude + k * STEP>>
                  \notin seen_coords

C2_NudgeIsSmallestDiagonalOffset ==
    [][C2_SmallestFreeOffset /\ C2_EqualRawDifferBySteps' /\ C2_Example']_vars

C2_Witness ==
    /\ C2_ExampleCase
    /\ Len(locations) = 2
    /\ Coord(locations[2]) = OriginNudged

\* C3: no exception escapes fetch_locations, the loop takes every row before
\* it returns, a row that was reported as failed or unresolved has no record,
\* and the current row has a record only if all its fields were there and the
\* geocoder resolved its address.
C3_FailedRowsAreDroppedNotFatal ==
    /\ pc # "crashed"
    /\ pc \in {"render", "done"} => i = n
    /\ \A k \in 1..i :
          (Reported("error", k) \/ Reported("not geocoded", k)) => ~Emitted(k)
    /\ \A k \in 1..i :
          Emitted(k) \/ Reported("error", k) \/ Reported("not geocoded", k)
    /\ (i >= 1 /\ Emitted(i)) => (Resolved /\ row.props = AllFields)
    /\ (i >= 1 /\ ~Resolved) => ~Emitted(i)

\* A failed row and an unresolved row were followed by an emitted one.
C3_Witness ==
    /\ pc = "done"
    /\ Reported("error", 1)
    /\ Reported("not geocoded", 2)
    /\ Emitted(3)

\* C4: the records appear in the order of the rows they came from, and no
\* row has more than one record: the row indices of the output are strictly
\* increasing and are indices of rows already taken.
C4_OutputIsSubsequenceOfRows ==
    /\ \A a, b \in 1..Len(locations) :
          a < b => locations[a].row < locations[b].row
    /\ \A a \in 1..Len(locations) : locations[a].row \in 1..i

\* Rows 1 and 3 were emitted around a dropped row 2.
C4_Witness ==
    /\ Len(locations) = 2
    /\ locations[1].row = 1
    /\ locations[2].row = 3

\* A digit of the display string that survives dropping the last two
\* comma-separated components: one with at least two commas after it.
KeptDigit(d) ==
    \E k \in 1..Len(d) :
        /\ d[k] \in Digits
        /\ Cardinality({m \in (k + 1)..Len(d) : d[m] = ","}) >= 2

\* C5: for the current row, once its address resolved and its imprecise flag
\* was read, the house-number warning was given exactly when the trimmed
\* display string has no digit and the flag is false; no other row gets it.
C5_WarningIffNoDigitAndNotFlagged ==
    i >= 1 =>
        /\ (Resolved /\ "Ungenaue Adresse" \in row.props) =>
              (Reported("no house number", i)
                  <=> (~KeptDigit(location.display_name) /\ ~row.inaccurate))
        /\ Reported("no house number", i) =>
              (Resolved /\ "Ungenaue Adresse" \in row.props)

\* A row flagged imprecise, with no digit in its trimmed display string, was
\* emitted without the warning.
C5_Witness ==
    /\ i >= 1
    /\ Resolved
    /\ row.inaccurate
    /\ ~KeptDigit(location.display_name)
    /\ Emitted(i)
    /\ ~Reported("no house number", i)

\* C6 as stated: every row the house-number warning was given for has a
\* record in the output.
C6_WarnedRowIsEmitted ==
    \A k \in 1..i : Reported("no house number", k) => Emitted(k)

\* C6 as amended: a row the house-number warning was given for has a record
\* in the output unless its processing raised after the warning (a later
\* field was missing), and then it was reported as an error and dropped.
C6_WarnedRowIsEmittedUnlessItRaised ==
    /\ \A k \in 1..i :
          Reported("no house number", k) => (Emitted(k) <=> ~Reported("error", k))
    /\ (i >= 1 /\ Reported("no house number", i)
            /\ {"Status", "Quelle", "Notes", "Google Maps"} \subseteq row.props)
          => Emitted(i)

\* A warned row was emitted.
C6_Witness ==
    /\ i >= 1
    /\ Reported("no house number", i)
    /\ Emitted(i)

\* C7 as stated: between two iterations no geocoder lookup is left without
\* the pause that follows it, so two lookups never happen without a pause
\* between them.
C7_PauseAfterEveryLookup == unpaused <= 1

\* C8: once the page is built, 'No locations found.' is shown exactly when
\* the list is empty, the map and the table exactly when it is not, and the
\* centre and bounds were computed over at least one record.
C8_EmptyListShowsErrorOnly ==
    page.rendered =>
        /\ page.error <=> (locations = <<>>)
        /\ page.map.shown <=> (locations # <<>>)
        /\ page.table.shown <=> (locations # <<>>)
        /\ page.map.shown => page.map.centre.count = Len(locations)
        /\ page.map.shown => page.map.centre.count >= 1

\* Two or more rows were taken, none survived, and the error was shown.
C8_Witness ==
    /\ page.rendered
    /\ n >= 2
    /\ locations = <<>>
    /\ page.error
    /\ ~page.map.shown

\* C9: a step that takes a row without emitting a record for it changes
\* neither seen_coords nor locations; the reserved coordinates are exactly
\* the coordinates of the records, one each; and a record is away from its
\* raw coordinates only if an earlier record sits on them.
C9_DroppedStep ==
    (i' = i + 1 /\ ~Emitted(i)' ) =>
        (seen_coords' = seen_coords /\ locations' = locations)

C9_ReservedAreEmitted ==
    /\ seen_coords = {Coord(locations[a]) : a \in 1..Len(locations)}
    /\ Cardinality(seen_coords) = Len(locations)
    /\ \A b \in 1..Len(locations) :
          Coord(locations[b]) # raw[b] =>
              \E a \in 1..(b - 1) : Coord(locations[a]) = raw[b]

C9_DroppedRowReservesNothing ==
    [][C9_DroppedStep /\ C9_ReservedAreEmitted']_vars

\* A row was dropped after its address resolved, and the point it resolved
\* to is still free although other points are reserved.
C9_Witness ==
    /\ i >= 2
    /\ Resolved
    /\ ~Emitted(i)
    /\ seen_coords # {}
    /\ <<location.latitude, location.longitude>> \notin seen_coords

\* C10: every record lies inside the box [sw, ne] given to fit_bounds, and
\* the markers are at the records' final coordinates.
C10_MarkersInsideBounds ==
    page.map.shown =>
        /\ \A a \in 1..Len(locations) :
              /\ page.map.sw[1] <= locations[a].lat
              /\ locations[a].lat <= page.map.ne[1]
              /\ page.map.sw[2] <= locations[a].lon
              /\ locations[a].lon <= page.map.ne[2]
        /\ page.map.markers = {Coord(locations[a]) : a \in 1..Len(locations)}

\* The north-east corner is a record that was nudged twice.
C10_Witness ==
    /\ page.map.shown
    /\ \E a \in 1..Len(locations) :
          /\ locations[a].lat = raw[a][1] + 2 * STEP
          /\ page.map.ne = Coord(locations[a])

====
